---- MODULE Spec2Model ----
(***************************************************************************)
(* Model of src/src/utils/pdfExport.ts.  The file holds two definitions of *)
(* exportToPDF: the first (lines 13-143, suffix _v1 here) draws every      *)
(* table auto-fit and writes amounts with the rupee glyph; the second      *)
(* (lines 157-332, suffix _v2) draws fixed-width summary tables, writes    *)
(* amounts with the prefix "Rs. " and highlights the unpaid row.           *)
(*                                                                         *)
(* An entry is a record of the fields exportToPDF reads for its numbers:   *)
(* rentAmount, advanceAmount, balanceStatus, vehicleNumber, weight.  The   *)
(* date, transportName, place and balanceDate cells are not modelled.      *)
(* Amounts are integers below 100,000, where every locale that groups by   *)
(* thousands with a comma writes the same digits.                          *)
(***************************************************************************)
EXTENDS Integers, Sequences, FiniteSets

VARIABLES entries, pc, locals, doc

vars == <<entries, pc, locals, doc>>

----------------------------------------------------------------------------
(* JavaScript values.  Every value is a record of the same shape so that   *)
(* values of different types can be compared.                              *)

Num(n) == [t |-> "number", n |-> n, s |-> ""]

Str(s) == [t |-> "string", n |-> 0, s |-> s]

Undefined == [t |-> "undefined", n |-> 0, s |-> ""]

\* A function or object value; s is the text String(v) gives.
Obj(s) == [t |-> "object", n |-> 0, s |-> s]

\* ToBoolean
Truthy(v) ==
  CASE v.t = "number" -> v.n # 0
    [] v.t = "string" -> v.s # ""
    [] v.t = "object" -> TRUE
    [] OTHER -> FALSE

\* a || b
Or(a, b) == IF Truthy(a) THEN a ELSE b

DigitChar == <<"0", "1", "2", "3", "4", "5", "6", "7", "8", "9">>

RECURSIVE NatToString(_)
NatToString(n) ==
  IF n < 10 THEN DigitChar[n + 1]
  ELSE NatToString(n \div 10) \o DigitChar[(n % 10) + 1]

\* Number.prototype.toString of an integer
IntToString(n) == IF n < 0 THEN "-" \o NatToString(-n) ELSE NatToString(n)

\* String(v)
JSString(v) ==
  CASE v.t = "number" -> IntToString(v.n)
    [] v.t = "undefined" -> "undefined"
    [] OTHER -> v.s

Pad3(n) ==
  IF n < 10 THEN "00" \o NatToString(n)
  ELSE IF n < 100 THEN "0" \o NatToString(n)
  ELSE NatToString(n)

RECURSIVE GroupThousands(_)
GroupThousands(n) ==
  IF n < 1000 THEN NatToString(n)
  ELSE GroupThousands(n \div 1000) \o "," \o Pad3(n % 1000)

\* Number.prototype.toLocaleString of an integer: digits grouped by
\* thousands, a leading minus sign for a negative number.
toLocaleString(n) ==
  IF n < 0 THEN "-" \o GroupThousands(-n) ELSE GroupThousands(n)

RECURSIVE SeqSum(_)
\* Array.prototype.reduce((sum, x) => sum + x, 0) over a sequence of integers
SeqSum(s) == IF s = <<>> THEN 0 ELSE SeqSum(SubSeq(s, 1, Len(s) - 1)) + s[Len(s)]

\* new Set(array).size
SetSize(s) == Cardinality({s[i] : i \in 1..Len(s)})

\* A quotient num / den kept exact; den = 0 stands for the NaN of 0 / 0.
Quotient(num, den) == [num |-> num, den |-> den]

\* Math.round: the nearest integer, a tie going up.
MathRound(q) == (2 * q.num + q.den) \div (2 * q.den)

\* Number.prototype.toFixed(1) of 100 * num / den: tenths, a tie going up.
toFixed1(num, den) ==
  LET tenths == (2000 * num + den) \div (2 * den)
  IN  NatToString(tenths \div 10) \o "." \o NatToString(tenths % 10)

----------------------------------------------------------------------------
(* The object literal {} that statusDistribution accumulates into: its own *)
(* properties in creation order, over the properties it inherits from      *)
(* Object.prototype.                                                       *)

EmptyObject == <<>>

\* The property key a value is converted to when used as acc[value].
ToPropertyKey(v) == JSString(v)

OwnIndex(obj, k) == {i \in 1..Len(obj) : obj[i].key = k}

\* What Object.prototype gives for a key the object does not own.
Inherited(k) ==
  CASE k = "constructor" -> Obj("function Object() { [native code] }")
    [] k = "__proto__" -> Obj("[object Object]")
    [] k = "toString" -> Obj("function toString() { [native code] }")
    [] OTHER -> Undefined

\* obj[k]
Get(obj, k) ==
  IF OwnIndex(obj, k) # {}
  THEN obj[CHOOSE i \in OwnIndex(obj, k) : TRUE].value
  ELSE Inherited(k)

\* obj[k] = v.  "__proto__" is an accessor of Object.prototype whose setter
\* ignores a value that is not an object; any other key becomes (or stays)
\* an own property, a new one after the existing ones.
Set(obj, k, v) ==
  IF k = "__proto__" THEN obj
  ELSE IF OwnIndex(obj, k) # {}
  THEN [i \in 1..Len(obj) |-> IF obj[i].key = k THEN [key |-> k, value |-> v] ELSE obj[i]]
  ELSE Append(obj, [key |-> k, value |-> v])

\* a + b with b a number: numeric addition when a is a number, string
\* concatenation otherwise.
Plus(a, b) ==
  IF a.t = "number" THEN Num(a.n + b.n) ELSE Str(JSString(a) \o JSString(b))

\* The array indices a key can spell, up to the largest the model uses.
MaxIndexKey == 10

IsIndexKey(k) == \E n \in 0..MaxIndexKey : NatToString(n) = k

IndexOfKey(k) == CHOOSE n \in 0..MaxIndexKey : NatToString(n) = k

RECURSIVE SortByIndex(_)
\* The own properties with integer keys, in ascending numeric order.
SortByIndex(props) ==
  IF props = {} THEN <<>>
  ELSE LET least == CHOOSE p \in props :
                      \A q \in props : IndexOfKey(p.key) <= IndexOfKey(q.key)
       IN  <<least>> \o SortByIndex(props \ {least})

\* Object.entries(obj): integer keys first in ascending numeric order, then
\* the other string keys in creation order.
ObjectEntries(obj) ==
  SortByIndex({obj[i] : i \in {j \in 1..Len(obj) : IsIndexKey(obj[j].key)}})
    \o SelectSeq(obj, LAMBDA p : ~IsIndexKey(p.key))

----------------------------------------------------------------------------
(* The first exportToPDF (lines 13-143).                                   *)

\* Mutant: the total nets each advance off its rent.
totalAmount_v1_net(es) ==
  SeqSum([i \in 1..Len(es) |->
            es[i].rentAmount - Or(es[i].advanceAmount, Num(0)).n])

totalAmount_v1(es) == SeqSum([i \in 1..Len(es) |-> es[i].rentAmount])

\* Mutant: every entry that is not UNPAID counts as paid.
paidAmount_v1_notUnpaid(es) ==
  LET kept == SelectSeq(es, LAMBDA entry : entry.balanceStatus # Str("UNPAID"))
  IN  SeqSum([i \in 1..Len(kept) |-> kept[i].rentAmount])

\* Mutant: the paid amount nets each advance off its rent, as the unpaid one does.
paidAmount_v1_net(es) ==
  LET kept == SelectSeq(es, LAMBDA entry : entry.balanceStatus = Str("PAID"))
  IN  SeqSum([i \in 1..Len(kept) |->
                kept[i].rentAmount - Or(kept[i].advanceAmount, Num(0)).n])

paidAmount_v1(es) ==
  LET kept == SelectSeq(es, LAMBDA entry : entry.balanceStatus = Str("PAID"))
  IN  SeqSum([i \in 1..Len(kept) |-> kept[i].rentAmount])

\* Mutant: a negative balance is clamped to zero.
unpaidAmount_v1_clamped(es) ==
  LET kept == SelectSeq(es, LAMBDA entry : entry.balanceStatus # Str("PAID"))
      clamp(b) == IF b < 0 THEN 0 ELSE b
  IN  SeqSum([i \in 1..Len(kept) |-> clamp(kept[i].rentAmount - Or(kept[i].advanceAmount, Num(0)).n)])

unpaidAmount_v1(es) ==
  LET kept == SelectSeq(es, LAMBDA entry : entry.balanceStatus # Str("PAID"))
  IN  SeqSum([i \in 1..Len(kept) |-> kept[i].rentAmount - Or(kept[i].advanceAmount, Num(0)).n])

\* Mutant: the division is not guarded.
averageAmount_v1_unguarded(es) == Quotient(totalAmount_v1(es), Len(es))

averageAmount_v1(es) ==
  IF Len(es) # 0 THEN Quotient(totalAmount_v1(es), Len(es)) ELSE Quotient(0, 1)

uniqueVehicles_v1(es) == SetSize([i \in 1..Len(es) |-> es[i].vehicleNumber])

\* Mutant: the empty weights are not filtered out before counting.
uniqueWeights_v1_unfiltered(es) == SetSize([i \in 1..Len(es) |-> es[i].weight])

uniqueWeights_v1(es) ==
  SetSize(SelectSeq([i \in 1..Len(es) |-> es[i].weight], LAMBDA w : w # ""))

\* The text of Math.round(averageAmount).toLocaleString()
roundedAverage_v1(q) == IF q.den = 0 THEN "NaN" ELSE toLocaleString(MathRound(q))

\* summaryStats mapped to the body of the summary table: [label, value.toString()]
summaryStats_v1(es) ==
  << [label |-> "Total Entries", value |-> IntToString(Len(es)), highlight |-> FALSE],
     [label |-> "Total Amount",
      value |-> "₹" \o toLocaleString(totalAmount_v1(es)), highlight |-> FALSE],
     [label |-> "Paid Amount",
      value |-> "₹" \o toLocaleString(paidAmount_v1(es)), highlight |-> FALSE],
     [label |-> "Unpaid Amount",
      value |-> "₹" \o toLocaleString(unpaidAmount_v1(es)), highlight |-> FALSE],
     [label |-> "Average Amount",
      value |-> "₹" \o roundedAverage_v1(averageAmount_v1(es)), highlight |-> FALSE],
     [label |-> "Unique Vehicles",
      value |-> IntToString(uniqueVehicles_v1(es)), highlight |-> FALSE],
     [label |-> "Unique Weights",
      value |-> IntToString(uniqueWeights_v1(es)), highlight |-> FALSE] >>

RECURSIVE statusDistribution_v1(_)
\* entries.reduce((acc, entry) => { acc[status] = (acc[status] || 0) + 1 }, {})
statusDistribution_v1(es) ==
  IF es = <<>> THEN EmptyObject
  ELSE LET acc == statusDistribution_v1(SubSeq(es, 1, Len(es) - 1))
           k == ToPropertyKey(es[Len(es)].balanceStatus)
       IN  Set(acc, k, Plus(Or(Get(acc, k), Num(0)), Num(1)))

\* `${((count / entries.length) * 100).toFixed(1)}%`
percentage_v1(count, n) ==
  IF count.t = "number" THEN toFixed1(count.n, n) \o "%" ELSE "NaN%"

distributionBody_v1(es) ==
  LET props == ObjectEntries(statusDistribution_v1(es))
  IN  [i \in 1..Len(props) |->
         [status |-> props[i].key, count |-> props[i].value,
          percentage |-> percentage_v1(props[i].value, Len(es))]]

vehicleCell_v1(entry) == Or(Str(entry.vehicleNumber), Str("-"))

weightCell_v1(entry) == Or(Str(entry.weight), Str("-"))

rentCell_v1(entry) == Str("₹" \o toLocaleString(entry.rentAmount))

advanceCell_v1(entry) ==
  IF Truthy(entry.advanceAmount)
  THEN Str("₹" \o toLocaleString(entry.advanceAmount.n))
  ELSE Str("-")

\* Mutant: a zero balance is shown as the dash, as a zero advance is.
balanceCell_v1_dashed(entry) ==
  LET b == entry.rentAmount - Or(entry.advanceAmount, Num(0)).n
  IN  IF b # 0 THEN Str("₹" \o toLocaleString(b)) ELSE Str("-")

balanceCell_v1(entry) ==
  Str("₹" \o toLocaleString(entry.rentAmount - Or(entry.advanceAmount, Num(0)).n))

statusCell_v1(entry) == Or(entry.balanceStatus, Str("-"))

\* Mutant: the rows come out newest first.
entriesData_v1_reversed(es) ==
  [i \in 1..Len(es) |->
     LET entry == es[Len(es) + 1 - i]
     IN  [vehicle |-> vehicleCell_v1(entry), weight |-> weightCell_v1(entry),
          rent |-> rentCell_v1(entry), advance |-> advanceCell_v1(entry),
          balance |-> balanceCell_v1(entry), status |-> statusCell_v1(entry)]]

entriesData_v1(es) ==
  [i \in 1..Len(es) |->
     [vehicle |-> vehicleCell_v1(es[i]), weight |-> weightCell_v1(es[i]),
      rent |-> rentCell_v1(es[i]), advance |-> advanceCell_v1(es[i]),
      balance |-> balanceCell_v1(es[i]), status |-> statusCell_v1(es[i])]]

----------------------------------------------------------------------------
(* The second exportToPDF (lines 157-332).                                 *)

totalAmount_v2(es) == SeqSum([i \in 1..Len(es) |-> es[i].rentAmount])

unpaidAmount_v2(es) ==
  LET kept == SelectSeq(es, LAMBDA entry : entry.balanceStatus # Str("PAID"))
  IN  SeqSum([i \in 1..Len(kept) |-> kept[i].rentAmount - Or(kept[i].advanceAmount, Num(0)).n])

paidAmount_v2(es) ==
  LET kept == SelectSeq(es, LAMBDA entry : entry.balanceStatus = Str("PAID"))
  IN  SeqSum([i \in 1..Len(kept) |-> kept[i].rentAmount])

averageAmount_v2(es) ==
  IF Len(es) > 0 THEN Quotient(totalAmount_v2(es), Len(es)) ELSE Quotient(0, 1)

uniqueVehicles_v2(es) == SetSize([i \in 1..Len(es) |-> es[i].vehicleNumber])

uniqueWeights_v2(es) ==
  SetSize(SelectSeq([i \in 1..Len(es) |-> es[i].weight], LAMBDA w : w # ""))

\* The text of Math.round(averageAmount).toLocaleString()
roundedAverage_v2(q) == IF q.den = 0 THEN "NaN" ELSE toLocaleString(MathRound(q))

\* summaryStats; summaryBody styles the row whose highlight is true.
summaryStats_v2(es) ==
  << [label |-> "Total Entries", value |-> IntToString(Len(es)), highlight |-> FALSE],
     [label |-> "Total Amount",
      value |-> "Rs. " \o toLocaleString(totalAmount_v2(es)), highlight |-> FALSE],
     [label |-> "Paid Amount",
      value |-> "Rs. " \o toLocaleString(paidAmount_v2(es)), highlight |-> FALSE],
     [label |-> "Unpaid Amount",
      value |-> "Rs. " \o toLocaleString(unpaidAmount_v2(es)), highlight |-> TRUE],
     [label |-> "Average Amount",
      value |-> "Rs. " \o roundedAverage_v2(averageAmount_v2(es)), highlight |-> FALSE],
     [label |-> "Unique Vehicles",
      value |-> IntToString(uniqueVehicles_v2(es)), highlight |-> FALSE],
     [label |-> "Unique Weights",
      value |-> IntToString(uniqueWeights_v2(es)), highlight |-> FALSE] >>

RECURSIVE statusDistribution_v2(_)
\* entries.reduce((acc, entry) => { acc[status] = (acc[status] || 0) + 1 }, {})
statusDistribution_v2(es) ==
  IF es = <<>> THEN EmptyObject
  ELSE LET acc == statusDistribution_v2(SubSeq(es, 1, Len(es) - 1))
           k == ToPropertyKey(es[Len(es)].balanceStatus)
       IN  Set(acc, k, Plus(Or(Get(acc, k), Num(0)), Num(1)))

\* `${Math.round((count / entries.length) * 100)}%`
percentage_v2(count, n) ==
  IF count.t = "number"
  THEN IntToString(MathRound(Quotient(100 * count.n, n))) \o "%"
  ELSE "NaN%"

distributionBody_v2(es) ==
  LET props == ObjectEntries(statusDistribution_v2(es))
  IN  [i \in 1..Len(props) |->
         [status |-> props[i].key, count |-> props[i].value,
          percentage |-> percentage_v2(props[i].value, Len(es))]]

vehicleCell_v2(entry) == Str(entry.vehicleNumber)

weightCell_v2(entry) == Or(Str(entry.weight), Str("-"))

rentCell_v2(entry) == Str("Rs. " \o toLocaleString(entry.rentAmount))

advanceCell_v2(entry) ==
  IF Truthy(entry.advanceAmount)
  THEN Str("Rs. " \o toLocaleString(entry.advanceAmount.n))
  ELSE Str("-")

balanceCell_v2(entry) ==
  Str("Rs. " \o toLocaleString(entry.rentAmount - Or(entry.advanceAmount, Num(0)).n))

statusCell_v2(entry) == entry.balanceStatus

tableData_v2(es) ==
  [i \in 1..Len(es) |->
     [vehicle |-> vehicleCell_v2(es[i]), weight |-> weightCell_v2(es[i]),
      rent |-> rentCell_v2(es[i]), advance |-> advanceCell_v2(es[i]),
      balance |-> balanceCell_v2(es[i]), status |-> statusCell_v2(es[i])]]

----------------------------------------------------------------------------
(* The renderer: doc is the list of the calls made on the jsPDF document   *)
(* that carry data, each autoTable under the title doc.text wrote for it.  *)

NewDoc == <<>>

autoTable(d, title, body) ==
  Append(d, [op |-> "autoTable", title |-> title, body |-> body])

save(d) == Append(d, [op |-> "save", title |-> "", body |-> <<>>])

\* The local constants of a run that has not happened.
NoLocals ==
  [totalAmount |-> 0, paidAmount |-> 0, unpaidAmount |-> 0,
   averageAmount |-> Quotient(0, 1), uniqueVehicles |-> 0, uniqueWeights |-> 0]

----------------------------------------------------------------------------
(* The inputs.                                                             *)

MaxEntries == 3

SeqsUpTo(D, n) == UNION {[1..k -> D] : k \in 0..n}

Entry(rent, advance, status, vehicle, weight) ==
  [rentAmount |-> rent, advanceAmount |-> advance, balanceStatus |-> status,
   vehicleNumber |-> vehicle, weight |-> weight]

\* Entries that differ in their amounts and in being PAID or not; a PARTIAL
\* entry is one on which an advance was paid.
AmountEntries ==
  {Entry(r, a, Str(s), "MH12AB1234", "10T") :
     r \in {0, 1500}, a \in {Undefined, Num(0), Num(500), Num(2000)},
     s \in {"PAID", "UNPAID"}}
  \cup {Entry(1500, a, Str("PARTIAL"), "MH12AB1234", "10T") :
          a \in {Num(500), Num(2000)}}

\* Entries that differ in their status only: the three known values, two
\* statuses spelling integers, two naming properties of Object.prototype,
\* and an absent one.
StatusEntries ==
  {Entry(1500, Num(500), s, "MH12AB1234", "10T") :
     s \in {Str("PAID"), Str("UNPAID"), Str("PARTIAL"), Str("2"), Str("10"),
            Str("__proto__"), Str("constructor"), Undefined}}

\* Entries that differ in their vehicle, weight and status cells.
CellEntries ==
  {Entry(1500, Undefined, s, v, w) :
     s \in {Str("UNPAID"), Undefined}, v \in {"", "MH12AB1234", "MH14CD5678"},
     w \in {"", "10T", "20T"}}

InitOver(D) ==
  /\ entries \in SeqsUpTo(D, MaxEntries)
  /\ pc = "ready"
  /\ locals = NoLocals
  /\ doc = NewDoc

Init == InitOver(AmountEntries)

InitStatus == InitOver(StatusEntries)

InitCells == InitOver(CellEntries)

\* Mutant: a run over no entries returns before it renders or saves anything.
exportToPDF_v1_earlyReturn ==
  /\ pc = "ready"
  /\ locals' = [totalAmount |-> totalAmount_v1(entries),
                paidAmount |-> paidAmount_v1(entries),
                unpaidAmount |-> unpaidAmount_v1(entries),
                averageAmount |-> averageAmount_v1(entries),
                uniqueVehicles |-> uniqueVehicles_v1(entries),
                uniqueWeights |-> uniqueWeights_v1(entries)]
  /\ doc' = IF Len(entries) = 0 THEN NewDoc
            ELSE save(autoTable(autoTable(autoTable(NewDoc,
                   "Summary Statistics", summaryStats_v1(entries)),
                   "Status Distribution", distributionBody_v1(entries)),
                   "Detailed Entries", entriesData_v1(entries)))
  /\ pc' = "v1"
  /\ UNCHANGED entries

exportToPDF_v1 ==
  /\ pc = "ready"
  /\ locals' = [totalAmount |-> totalAmount_v1(entries),
                paidAmount |-> paidAmount_v1(entries),
                unpaidAmount |-> unpaidAmount_v1(entries),
                averageAmount |-> averageAmount_v1(entries),
                uniqueVehicles |-> uniqueVehicles_v1(entries),
                uniqueWeights |-> uniqueWeights_v1(entries)]
  /\ doc' = save(autoTable(autoTable(autoTable(NewDoc,
                "Summary Statistics", summaryStats_v1(entries)),
                "Status Distribution", distributionBody_v1(entries)),
                "Detailed Entries", entriesData_v1(entries)))
  /\ pc' = "v1"
  /\ UNCHANGED entries

exportToPDF_v2 ==
  /\ pc = "ready"
  /\ locals' = [totalAmount |-> totalAmount_v2(entries),
                paidAmount |-> paidAmount_v2(entries),
                unpaidAmount |-> unpaidAmount_v2(entries),
                averageAmount |-> averageAmount_v2(entries),
                uniqueVehicles |-> uniqueVehicles_v2(entries),
                uniqueWeights |-> uniqueWeights_v2(entries)]
  /\ doc' = save(autoTable(autoTable(autoTable(NewDoc,
                "Summary Statistics", summaryStats_v2(entries)),
                "Status Distribution", distributionBody_v2(entries)),
                "Detailed Entries", tableData_v2(entries)))
  /\ pc' = "v2"
  /\ UNCHANGED entries

Next == exportToPDF_v1 \/ exportToPDF_v2

Spec == Init /\ [][Next]_vars

SpecStatus == InitStatus /\ [][Next]_vars

SpecCells == InitCells /\ [][Next]_vars

Done == pc # "ready"

summary == doc[1].body

distribution == doc[2].body

detail == doc[3].body

----------------------------------------------------------------------------
(* What the properties below are stated with: the entries read directly,   *)
(* not through the operators of the model.                                 *)

Indices == 1..Len(entries)

IsPaid(i) == entries[i].balanceStatus.t = "string" /\ entries[i].balanceStatus.s = "PAID"

AdvanceOrZero(i) ==
  IF entries[i].advanceAmount.t = "number" THEN entries[i].advanceAmount.n ELSE 0

Balance(i) == entries[i].rentAmount - AdvanceOrZero(i)

RECURSIVE SumOver(_, _)
SumOver(S, f) ==
  IF S = {} THEN 0
  ELSE LET i == CHOOSE j \in S : TRUE IN f[i] + SumOver(S \ {i}, f)

Rents == [i \in Indices |-> entries[i].rentAmount]

Balances == [i \in Indices |-> Balance(i)]

Currency == IF pc = "v1" THEN "₹" ELSE "Rs. "

----------------------------------------------------------------------------
\* C1: after exportToPDF, unpaidAmount is the sum of rentAmount -
\* (advanceAmount or 0) over exactly the entries whose balanceStatus is not
\* PAID, a negative balance added with its sign, and the summary's Unpaid
\* Amount row shows that number with its sign.
C1_UnpaidIsSumOfBalances ==
  Done =>
    LET expected == SumOver({i \in Indices : ~IsPaid(i)}, Balances)
    IN  /\ locals.unpaidAmount = expected
        /\ summary[4].label = "Unpaid Amount"
        /\ summary[4].value = Currency \o toLocaleString(expected)

\* A run over two unpaid entries, one of them with an advance above its
\* rent, whose unpaid amount is negative.
C1_Witness ==
  /\ Done
  /\ Len(entries) = 2
  /\ \E i \in Indices : ~IsPaid(i) /\ Balance(i) < 0
  /\ \E i \in Indices : ~IsPaid(i) /\ Balance(i) = 0
  /\ locals.unpaidAmount = -2000
  /\ summary[4].value \in {"₹-2,000", "Rs. -2,000"}

\* C2: after exportToPDF, totalAmount is the sum of rentAmount over all the
\* entries, whatever their balanceStatus and advanceAmount (0 for none).
C2_TotalIsSumOfRents ==
  Done =>
    /\ locals.totalAmount = SumOver(Indices, Rents)
    /\ summary[2].label = "Total Amount"
    /\ summary[2].value = Currency \o toLocaleString(SumOver(Indices, Rents))

\* A run over a paid entry and an unpaid entry with an advance.
C2_Witness ==
  /\ Done
  /\ \E i \in Indices : IsPaid(i) /\ entries[i].rentAmount > 0
  /\ \E i \in Indices : ~IsPaid(i) /\ AdvanceOrZero(i) > 0 /\ entries[i].rentAmount > 0
  /\ locals.totalAmount = 3000

\* C3 as stated: paidAmount <= totalAmount, with equality iff every entry
\* has balanceStatus PAID.
C3_EqualIffAllPaid ==
  Done =>
    /\ locals.paidAmount <= locals.totalAmount
    /\ (locals.paidAmount = locals.totalAmount) <=> (\A i \in Indices : IsPaid(i))

\* C3 as amended: with no negative rentAmount, paidAmount <= totalAmount,
\* with equality iff every entry that is not PAID has rentAmount 0.
C3_EqualIffUnpaidRentsZero ==
  (Done /\ \A i \in Indices : entries[i].rentAmount >= 0) =>
    /\ locals.paidAmount <= locals.totalAmount
    /\ (locals.paidAmount = locals.totalAmount)
         <=> (\A i \in Indices : ~IsPaid(i) => entries[i].rentAmount = 0)

\* A run whose paid amount equals its positive total although one entry is
\* not PAID.
C3_Witness ==
  /\ Done
  /\ locals.paidAmount = locals.totalAmount
  /\ locals.totalAmount > 0
  /\ \E i \in Indices : ~IsPaid(i)

\* C4: exportToPDF of no entries runs to its save with averageAmount 0, a
\* summary of zeros, no distribution row and no detail row.
C4_EmptyCollection ==
  (Done /\ entries = <<>>) =>
    /\ locals.averageAmount = Quotient(0, 1)
    /\ locals.totalAmount = 0 /\ locals.paidAmount = 0 /\ locals.unpaidAmount = 0
    /\ locals.uniqueVehicles = 0 /\ locals.uniqueWeights = 0
    /\ Len(summary) = 7
    /\ \A k \in {1, 6, 7} : summary[k].value = "0"
    /\ \A k \in 2..5 : summary[k].value = Currency \o "0"
    /\ distribution = <<>>
    /\ detail = <<>>
    /\ Len(doc) = 4 /\ doc[4].op = "save"

\* A run over no entries.
C4_Witness == Done /\ entries = <<>> /\ Len(doc) = 4

----------------------------------------------------------------------------
\* The status a distribution row of entry i is labelled with.
StatusLabel(i) ==
  IF entries[i].balanceStatus.t = "string" THEN entries[i].balanceStatus.s
  ELSE "undefined"

WithStatus(s) == {i \in Indices : StatusLabel(i) = s}

FirstSeen(s) == CHOOSE i \in WithStatus(s) : \A j \in WithStatus(s) : i <= j

Rows == 1..Len(distribution)

\* C5: the distribution has exactly one row per distinct balanceStatus of
\* the entries, whatever string it is; each row's count is the number of
\* entries with that status, and the counts sum to the number of entries.
C5_OneRowPerStatus ==
  Done =>
    /\ {distribution[r].status : r \in Rows} = {StatusLabel(i) : i \in Indices}
    /\ \A r, q \in Rows : distribution[r].status = distribution[q].status => r = q
    /\ \A r \in Rows :
         distribution[r].count = Num(Cardinality(WithStatus(distribution[r].status)))
    /\ SumOver(Rows, [r \in Rows |-> distribution[r].count.n]) = Len(entries)

\* C6: the distribution rows are in first-seen order of their status: of two
\* rows, the one whose status occurs first among the entries comes first.
C6_FirstSeenOrder ==
  Done =>
    \A r, q \in Rows :
      (distribution[r].status \in {StatusLabel(i) : i \in Indices}
         /\ distribution[q].status \in {StatusLabel(i) : i \in Indices}
         /\ r # q)
      => ((r < q) <=> (FirstSeen(distribution[r].status)
                         < FirstSeen(distribution[q].status)))

\* C7: every distribution row's percentage is written as a whole number of
\* percentage points followed by "%", the whole number nearest to
\* count / totalEntries * 100.
C7_WholePercentages ==
  Done =>
    \A r \in Rows :
      /\ distribution[r].count.t = "number"
      /\ \E p \in 0..100 :
           /\ distribution[r].percentage = NatToString(p) \o "%"
           /\ LET d == 100 * distribution[r].count.n - p * Len(entries)
              IN  2 * (IF d < 0 THEN -d ELSE d) <= Len(entries)

Dash == Str("-")

\* C8: the detail section has one row per entry, in the order of the
\* entries: as many rows as entries, row i showing the weight, the rent and
\* (when it has one) the vehicle number of entry i.
C8_OneRowPerEntryInOrder ==
  Done =>
    /\ Len(detail) = Len(entries)
    /\ \A i \in Indices :
         /\ detail[i].weight =
              (IF entries[i].weight = "" THEN Dash ELSE Str(entries[i].weight))
         /\ entries[i].vehicleNumber # ""
              => detail[i].vehicle = Str(entries[i].vehicleNumber)
         /\ detail[i].rent = Str(Currency \o toLocaleString(entries[i].rentAmount))

\* A run over three entries, the first and the last the same and the middle
\* one another, whose rows show the three weights in the order given.
C8_Witness ==
  /\ Done
  /\ Len(entries) = 3
  /\ entries[1] = entries[3]
  /\ entries[1].weight = "20T" /\ entries[2].weight = "10T"
  /\ entries[1].vehicleNumber = "MH14CD5678" /\ entries[2].vehicleNumber = "MH12AB1234"
  /\ Len(detail) = 3
  /\ detail[1].weight = Str("20T") /\ detail[2].weight = Str("10T")
  /\ detail[3].weight = Str("20T")

\* C9: in every detail row the balance cell is rentAmount - (advanceAmount
\* or 0) written as a currency value, zero or negative included; the advance
\* cell is the currency value of an advanceAmount that is present and not
\* zero, and the dash otherwise.
C9_BalanceAndAdvanceCells ==
  Done =>
    \A i \in Indices :
      /\ detail[i].balance = Str(Currency \o toLocaleString(Balance(i)))
      /\ detail[i].advance =
           (IF entries[i].advanceAmount.t = "number" /\ entries[i].advanceAmount.n # 0
            THEN Str(Currency \o toLocaleString(entries[i].advanceAmount.n))
            ELSE Dash)

\* A run over an entry with no advance (dash, balance the full rent), an
\* entry with an advance above its rent (negative balance) and an entry with
\* a zero advance on a zero rent (dash, zero balance).
C9_Witness ==
  /\ pc = "v1"
  /\ Len(entries) = 3
  /\ entries[1].advanceAmount = Undefined /\ entries[1].rentAmount = 1500
  /\ detail[1].advance = Str("-") /\ detail[1].balance = Str("₹1,500")
  /\ entries[2].advanceAmount = Num(2000) /\ entries[2].rentAmount = 1500
  /\ detail[2].advance = Str("₹2,000") /\ detail[2].balance = Str("₹-500")
  /\ entries[3].advanceAmount = Num(0) /\ entries[3].rentAmount = 0
  /\ detail[3].advance = Str("-") /\ detail[3].balance = Str("₹0")

\* C10: in every detail row the vehicle cell is the vehicleNumber, or the
\* dash when it is empty, and the status cell is the balanceStatus, or the
\* dash when it is absent.
C10_VehicleAndStatusCells ==
  Done =>
    \A i \in Indices :
      /\ detail[i].vehicle =
           (IF entries[i].vehicleNumber = "" THEN Dash
            ELSE Str(entries[i].vehicleNumber))
      /\ detail[i].status =
           (IF entries[i].balanceStatus = Undefined THEN Dash
            ELSE entries[i].balanceStatus)

----------------------------------------------------------------------------
SummaryLabels ==
  <<"Total Entries", "Total Amount", "Paid Amount", "Unpaid Amount",
    "Average Amount", "Unique Vehicles", "Unique Weights">>

\* C11: the summary lists the seven metrics Total Entries, Total Amount,
\* Paid Amount, Unpaid Amount, Average Amount, Unique Vehicles, Unique
\* Weights in that order, and the Unpaid Amount row is the one and only row
\* marked highlighted.
C11_SevenMetricsOneHighlighted ==
  Done =>
    /\ Len(summary) = 7
    /\ \A k \in 1..7 : summary[k].label = SummaryLabels[k]
    /\ {k \in 1..7 : summary[k].highlight} = {4}

----------------------------------------------------------------------------
(* What the other definition of exportToPDF hands the renderer for the     *)
(* entries of the run.                                                     *)

OtherCurrency == IF pc = "v1" THEN "Rs. " ELSE "₹"

OtherSummary ==
  IF pc = "v1" THEN summaryStats_v2(entries) ELSE summaryStats_v1(entries)

OtherDistribution ==
  IF pc = "v1" THEN distributionBody_v2(entries) ELSE distributionBody_v1(entries)

OtherDetail == IF pc = "v1" THEN tableData_v2(entries) ELSE entriesData_v1(entries)

\* The texts a and b write the same amount n, each after its own prefix.
SameAmount(a, b, n) ==
  /\ a = Currency \o toLocaleString(n)
  /\ b = OtherCurrency \o toLocaleString(n)

\* The cells a and b are both the dash, or write the same amount n.
SameAmountCell(a, b, n) ==
  \/ a = Dash /\ b = Dash
  \/ a.t = "string" /\ b.t = "string" /\ SameAmount(a.s, b.s, n)

SameSummaries ==
  /\ Len(OtherSummary) = Len(summary)
  /\ \A k \in {1, 6, 7} : OtherSummary[k].value = summary[k].value
  /\ SameAmount(summary[2].value, OtherSummary[2].value, locals.totalAmount)
  /\ SameAmount(summary[3].value, OtherSummary[3].value, locals.paidAmount)
  /\ SameAmount(summary[4].value, OtherSummary[4].value, locals.unpaidAmount)
  /\ SameAmount(summary[5].value, OtherSummary[5].value,
                MathRound(locals.averageAmount))

SameDistributions ==
  /\ Len(OtherDistribution) = Len(distribution)
  /\ \A r \in Rows :
       /\ OtherDistribution[r].status = distribution[r].status
       /\ OtherDistribution[r].count = distribution[r].count

SamePercentages ==
  \A r \in Rows : OtherDistribution[r].percentage = distribution[r].percentage

SameDetailAmounts ==
  /\ Len(OtherDetail) = Len(detail)
  /\ \A i \in Indices :
       /\ SameAmountCell(detail[i].rent, OtherDetail[i].rent, entries[i].rentAmount)
       /\ SameAmountCell(detail[i].advance, OtherDetail[i].advance, AdvanceOrZero(i))
       /\ SameAmountCell(detail[i].balance, OtherDetail[i].balance, Balance(i))

\* C12: the two definitions of exportToPDF compute the same numbers for the
\* same entries: the same summary values, the same distribution statuses,
\* counts and percentages, and the same rent, advance and balance amounts in
\* every detail row.
C12_VariantsComputeSameNumbers ==
  Done => SameSummaries /\ SameDistributions /\ SamePercentages /\ SameDetailAmounts

\* The part of C12 the percentages do not enter.
C12_SameButPercentages ==
  Done => SameSummaries /\ SameDistributions /\ SameDetailAmounts

----------------------------------------------------------------------------
Vehicles == {entries[i].vehicleNumber : i \in Indices}

NonEmptyWeights == {entries[i].weight : i \in Indices} \ {""}

\* C13: uniqueVehicles is the number of distinct vehicleNumber values and
\* uniqueWeights the number of distinct non-empty weight values; both are at
\* most the number of entries, and the summary shows them.
C13_UniqueCounts ==
  Done =>
    /\ locals.uniqueVehicles = Cardinality(Vehicles)
    /\ locals.uniqueWeights = Cardinality(NonEmptyWeights)
    /\ locals.uniqueVehicles <= Len(entries)
    /\ locals.uniqueWeights <= Len(entries)
    /\ summary[6].label = "Unique Vehicles"
    /\ summary[6].value = IntToString(Cardinality(Vehicles))
    /\ summary[7].label = "Unique Weights"
    /\ summary[7].value = IntToString(Cardinality(NonEmptyWeights))

\* A run over three entries of two vehicles, every weight empty: two unique
\* vehicles, no unique weight.
C13_Witness ==
  /\ Done
  /\ Len(entries) = 3
  /\ \A i \in Indices : entries[i].weight = ""
  /\ entries[1].vehicleNumber = entries[3].vehicleNumber
  /\ entries[1].vehicleNumber # entries[2].vehicleNumber
  /\ locals.uniqueVehicles = 2
  /\ locals.uniqueWeights = 0
  /\ summary[7].value = "0"

----------------------------------------------------------------------------
SectionTitles == <<"Summary Statistics", "Status Distribution", "Detailed Entries">>

Saves == {k \in 1..Len(doc) : doc[k].op = "save"}

----------------------------------------------------------------------------
Advances == [i \in Indices |-> AdvanceOrZero(i)]

UnpaidAdvances == SumOver({i \in Indices : ~IsPaid(i)}, Advances)

\* The entries with the advance of every PAID entry taken away.
WithoutPaidAdvances ==
  [i \in Indices |->
     IF IsPaid(i) THEN [entries[i] EXCEPT !.advanceAmount = Undefined]
     ELSE entries[i]]

\* The summary the definition that ran gives for the entries es.
SummaryOf(es) == IF pc = "v1" THEN summaryStats_v1(es) ELSE summaryStats_v2(es)

\* C15: totalAmount = paidAmount + unpaidAmount + the sum of (advanceAmount
\* or 0) over the entries that are not PAID; so paidAmount + unpaidAmount =
\* totalAmount exactly when no entry that is not PAID carries an advance;
\* and the advances of the PAID entries change no summary value.
C15_AmountsPartitionTotal ==
  Done =>
    /\ locals.totalAmount = locals.paidAmount + locals.unpaidAmount + UnpaidAdvances
    /\ (locals.paidAmount + locals.unpaidAmount = locals.totalAmount)
         <=> (\A i \in Indices : ~IsPaid(i) => AdvanceOrZero(i) = 0)
    /\ summary = SummaryOf(WithoutPaidAdvances)

\* A run over a PAID and an UNPAID entry, each of rent 1500 with an advance
\* of 500: total 3000, paid 1500, unpaid 1000, the 500 apart being the
\* advance of the UNPAID entry.
C15_Witness ==
  /\ Done
  /\ Len(entries) = 2
  /\ IsPaid(1) /\ ~IsPaid(2)
  /\ AdvanceOrZero(1) = 500 /\ AdvanceOrZero(2) = 500
  /\ locals.totalAmount = 3000
  /\ locals.paidAmount = 1500
  /\ locals.unpaidAmount = 1000
  /\ UnpaidAdvances = 500

====
